---------------------------- MODULE Spec2Model ----------------------------
(***************************************************************************)
(* Level generation of the Wave Runner game: the jump simulator, the       *)
(* clearance solver, the gravity-mode generator and the wave-mode         *)
(* generator.                                                              *)
(*                                                                         *)
(* Numbers.  The code computes in IEEE doubles; the model computes the     *)
(* same quantities exactly, as integers in fixed units:                    *)
(*   horizontal positions   in 1/600 px   (speed * dt = speed/60 px)       *)
(*   vertical positions     in 1/3600 px  (vy * dt, vy in 1/60 px/s)       *)
(*   vertical velocity      in 1/60 px/s  (gravity * dt = gravity/60)      *)
(*   time and hold time     in ticks of dt = 1/60 s                        *)
(*     (the two places where the doubles' rounding decides a comparison    *)
(*     on them, t > 10 and holdTimeRemaining <= 0, are modelled by what    *)
(*     the doubles give: see timeExceeded and holdPasses)                  *)
(*   Math.random()          in hundredths (a draw r stands for r/100)      *)
(*   wave-mode fractions    in 1/20000 of the playable height              *)
(*   hold duration of a window in ms                                       *)
(* jumpForce, gravity and speed are integers in the code's own units.      *)
(***************************************************************************)
EXTENDS Integers, Sequences, FiniteSets, TLC

----------------------------------------------------------------------------
(* Physics constants *)
GROUND_HEIGHT == 50
PLAYABLE_TOP == 60
SCREEN_HEIGHT == 768
GROUND_Y == SCREEN_HEIGHT - GROUND_HEIGHT
PLAYER_SIZE == 40
PLAYER_GROUND_Y == GROUND_Y - PLAYER_SIZE \div 2
GROUND_DETECTION_THRESHOLD == 5

(* Units *)
TicksPerSecond == 60
XUnit == 10 * TicksPerSecond
YUnit == TicksPerSecond * TicksPerSecond
RandUnit == 10 * 10
FracUnit == 2 * RandUnit * RandUnit

(* The value of a singleton set.  Binding a name in {e} evaluates e once;  *)
(* the operators below use it where the code stores a value in a local.   *)
TheValue(S) == CHOOSE v \in S : TRUE

Min(a, b) == IF a <= b THEN a ELSE b
Max(a, b) == IF a >= b THEN a ELSE b

----------------------------------------------------------------------------
(* Mutant: the bound is one simulated second. *)
timeExceededEarly(t) == t >= TicksPerSecond

(* Mutant: the bound is eleven simulated seconds. *)
timeExceededLate(t) == t >= 11 * TicksPerSecond

(* if (t > 10) break.  t is the sum of the doubles dt = 1/60: after 600    *)
(* additions the sum is 10.000000000000076, so the test is first true in   *)
(* the 600th pass.                                                         *)
timeExceeded(t) == t >= 10 * TicksPerSecond

(* The number of passes after which holdTimeRemaining <= 0, for a hold of  *)
(* holdDuration ticks.  holdTimeRemaining is a double: for the durations   *)
(* up to 0.5 s the subtractions of dt leave a positive remainder after     *)
(* holdDuration passes (0.1 - 6 * dt > 0, ..., 0.5 - 30 * dt > 0) and the  *)
(* hold lasts one pass more; for the longer ones the remainder is <= 0.    *)
holdPasses(holdDuration) ==
    IF 0 < holdDuration /\ holdDuration <= TicksPerSecond \div 2
    THEN holdDuration + 1
    ELSE holdDuration

(* Mutant: the impulse is re-applied wherever the body is falling. *)
holdReappliesAnywhere(y, vy) == vy >= 0

(* if (y >= PLAYER_GROUND_Y - GROUND_DETECTION_THRESHOLD && vy >= 0), vy   *)
(* being the velocity after gravity                                        *)
holdReapplies(y, vy) ==
    y >= (PLAYER_GROUND_Y - GROUND_DETECTION_THRESHOLD) * YUnit /\ vy >= 0

(* Mutant: the body is stopped at the ceiling but keeps its velocity. *)
ceilingClampKeepsVelocity(y, vy) ==
    IF y < (PLAYABLE_TOP + PLAYER_SIZE \div 2) * YUnit
    THEN [y |-> (PLAYABLE_TOP + PLAYER_SIZE \div 2) * YUnit - 1, vy |-> vy]
    ELSE [y |-> y, vy |-> vy]

(* if (y < PLAYABLE_TOP + PLAYER_SIZE / 2) { y = ...; vy = 0 } *)
ceilingClamp(y, vy) ==
    IF y < (PLAYABLE_TOP + PLAYER_SIZE \div 2) * YUnit
    THEN [y |-> (PLAYABLE_TOP + PLAYER_SIZE \div 2) * YUnit, vy |-> 0]
    ELSE [y |-> y, vy |-> vy]

(* simulateJump: one pass of the body of the while loop.  s is the loop's  *)
(* state: x, y, vy, t, isHolding, holdTimeRemaining, the positions pushed  *)
(* so far, and whether a break was taken.                                  *)
simulateStep(s, jumpForce, gravity, speed) ==
    LET pushed == Append(s.positions, [x |-> s.x, y |-> s.y, t |-> s.t])
        vyG == s.vy + gravity
        holdActive == s.isHolding /\ s.holdTimeRemaining > 0
        vyH == IF holdActive /\ holdReapplies(s.y, vyG)
               THEN jumpForce * TicksPerSecond
               ELSE vyG
        rem == IF holdActive THEN s.holdTimeRemaining - 1 ELSE s.holdTimeRemaining
        holding == IF holdActive /\ rem <= 0 THEN FALSE ELSE s.isHolding
        yM == s.y + vyH
        xM == s.x + speed * (XUnit \div TicksPerSecond)
        tM == s.t + 1
        clamped == ceilingClamp(yM, vyH)
        yC == clamped.y
        vyC == clamped.vy
        landed == yC >= PLAYER_GROUND_Y * YUnit /\ vyC > 0 /\ ~holding
    IN  IF landed
        THEN [x |-> xM, y |-> PLAYER_GROUND_Y * YUnit, vy |-> vyC, t |-> tM,
              isHolding |-> holding, holdTimeRemaining |-> rem,
              positions |-> Append(pushed, [x |-> xM, y |-> PLAYER_GROUND_Y * YUnit, t |-> tM]),
              stopped |-> TRUE]
        ELSE [x |-> xM, y |-> yC, vy |-> vyC, t |-> tM,
              isHolding |-> holding, holdTimeRemaining |-> rem,
              positions |-> pushed,
              stopped |-> timeExceeded(tM)]

(* The while loop: the body is repeated while (y < PLAYER_GROUND_Y || vy < 0) *)
(* and no break was taken.  The break at t > 10 is reached after at most   *)
(* 10 * 60 passes, so n = 10 * 60 + 1 passes run the loop to its end;      *)
(* the passes are split in halves to keep the evaluation shallow.          *)
simulateDone(s) ==
    s.stopped \/ ~(s.y < PLAYER_GROUND_Y * YUnit \/ s.vy < 0)

RECURSIVE simulateLoop(_, _, _, _, _)
simulateLoop(s0, n, jumpForce, gravity, speed) ==
    TheValue({ IF simulateDone(s) THEN s
               ELSE IF n <= 1 THEN simulateStep(s, jumpForce, gravity, speed)
               ELSE simulateLoop(simulateLoop(s, n \div 2, jumpForce, gravity, speed),
                                 n - n \div 2, jumpForce, gravity, speed)
               : s \in {s0} })

(* Mutant: the samples are pushed to an array that outlives the call. *)
keptPositions(earlier) == earlier

(* const positions = []: the array is made anew in every call, whatever    *)
(* the earlier calls left.                                                 *)
newPositions(earlier) == <<>>

(* The locals at the first test of the loop. *)
simulateStart(startX, jumpForce, holdDuration, earlier) ==
    [x |-> startX, y |-> PLAYER_GROUND_Y * YUnit,
     vy |-> jumpForce * TicksPerSecond, t |-> 0,
     isHolding |-> holdDuration > 0,
     holdTimeRemaining |-> holdPasses(holdDuration),
     positions |-> newPositions(earlier), stopped |-> FALSE]

simulateJump(startX, jumpForce, gravity, speed, holdDuration) ==
    simulateLoop(simulateStart(startX, jumpForce, holdDuration, <<>>),
                 10 * TicksPerSecond + 1, jumpForce, gravity, speed).positions

----------------------------------------------------------------------------
(* calculateClearanceWindow *)

(* One pass of the loop over the positions of a trajectory: acc holds      *)
(* peakY, firstAboveX and lastAboveX.                                      *)
scanPosition(acc, pos, requiredPlayerY) ==
    LET peak == IF pos.y < acc.peakY THEN pos.y ELSE acc.peakY
    IN  IF pos.y <= requiredPlayerY
        THEN [peakY |-> peak,
              firstAboveX |-> IF acc.firstAboveX < 0 THEN pos.x ELSE acc.firstAboveX,
              lastAboveX |-> pos.x]
        ELSE [peakY |-> peak, firstAboveX |-> acc.firstAboveX,
              lastAboveX |-> acc.lastAboveX]

(* The loop over positions[lo..hi], in order, split in halves. *)
RECURSIVE scanRange(_, _, _, _, _)
scanRange(acc0, positions, lo, hi, requiredPlayerY) ==
    TheValue({ IF lo > hi THEN acc
               ELSE IF lo = hi THEN scanPosition(acc, positions[lo], requiredPlayerY)
               ELSE scanRange(scanRange(acc, positions, lo, (lo + hi) \div 2, requiredPlayerY),
                              positions, (lo + hi) \div 2 + 1, hi, requiredPlayerY)
               : acc \in {acc0} })

scanPositions(positions0, requiredPlayerY) ==
    TheValue({ scanRange([peakY |-> PLAYER_GROUND_Y * YUnit,
                          firstAboveX |-> -1, lastAboveX |-> -1],
                         positions, 1, Len(positions), requiredPlayerY)
               : positions \in {positions0} })

requiredPlayerYOf(obstacleHeight) ==
    LET obstacleTopY == GROUND_Y * YUnit - obstacleHeight
        playerBottomClearance == (PLAYER_SIZE \div 2 + 10) * YUnit
    IN  obstacleTopY - playerBottomClearance

(* The hold candidates hd = 0.1, 0.2, ..., 1.0 s, in ticks. *)
holdCandidate(k) == k * (TicksPerSecond \div 10)

(* The sweep for (hd = 0.1; hd <= 1.0; hd += 0.1) from candidate k on: the *)
(* first candidate whose peak satisfies the required height sets           *)
(* holdDuration and the offsets and ends the sweep; acc is returned        *)
(* unchanged when none does.                                               *)
(* Mutant: the first candidate of the sweep is accepted as it is. *)
holdAcceptedAlways(holdPeakY, requiredPlayerY) == TRUE

(* if (holdPeakY <= requiredPlayerY) *)
holdAccepted(holdPeakY, requiredPlayerY) == holdPeakY <= requiredPlayerY

RECURSIVE holdSweep(_, _, _, _, _, _)
holdSweep(acc, k, requiredPlayerY, jumpForce, gravity, speed) ==
    IF holdCandidate(k) > TicksPerSecond THEN acc
    ELSE TheValue({ IF holdAccepted(scan.peakY, requiredPlayerY)
                    THEN [holdDuration |-> holdCandidate(k),
                          firstAboveX |-> scan.firstAboveX,
                          lastAboveX |-> scan.lastAboveX]
                    ELSE holdSweep(acc, k + 1, requiredPlayerY, jumpForce, gravity, speed)
                    : scan \in {scanPositions(simulateJump(0, jumpForce, gravity, speed,
                                                           holdCandidate(k)),
                                              requiredPlayerY)} })

(* Mutant: the tap is taken to fail whenever it does not clear the         *)
(* required height by the player's half extent more.                       *)
tapInsufficientWithMargin(peakY, firstAboveX, requiredPlayerY) ==
    peakY > requiredPlayerY - (PLAYER_SIZE \div 2) * YUnit \/ firstAboveX < 0

(* if (peakY > requiredPlayerY || firstAboveX < 0) *)
tapInsufficient(peakY, firstAboveX, requiredPlayerY) ==
    peakY > requiredPlayerY \/ firstAboveX < 0

(* The offsets and flags before the defaults are applied. *)
clearanceOffsets(obstacleHeight, jumpForce, gravity, speed) ==
    TheValue({
        LET needsHold == tapInsufficient(tap.peakY, tap.firstAboveX, requiredPlayerY)
            unswept == [holdDuration |-> 0, firstAboveX |-> tap.firstAboveX,
                        lastAboveX |-> tap.lastAboveX]
        IN  TheValue({ [needsHold |-> needsHold, holdDuration |-> swept.holdDuration,
                        firstAboveX |-> swept.firstAboveX, lastAboveX |-> swept.lastAboveX]
                       : swept \in {IF needsHold
                                    THEN holdSweep(unswept, 1, requiredPlayerY,
                                                   jumpForce, gravity, speed)
                                    ELSE unswept} })
        : requiredPlayerY \in {requiredPlayerYOf(obstacleHeight)},
          tap \in {scanPositions(simulateJump(0, jumpForce, gravity, speed, 0),
                                 requiredPlayerYOf(obstacleHeight))} })

(* Mutant: no default is set for the first offset. *)
defaultFirstAboveXKept(firstAboveX) == firstAboveX

defaultFirstAboveX(firstAboveX) ==
    IF firstAboveX < 0 THEN 50 * XUnit ELSE firstAboveX

defaultLastAboveX(lastAboveX) ==
    IF lastAboveX < 0 THEN 150 * XUnit ELSE lastAboveX

(* Mutant: the bounds are returned as computed, not reordered. *)
clearanceResultUnordered(earliestJumpX, latestJumpX, needsHold, holdDuration) ==
    [earliestJumpX |-> earliestJumpX,
     latestJumpX |-> latestJumpX,
     needsHold |-> needsHold,
     holdDuration |-> holdDuration]

clearanceResult(earliestJumpX, latestJumpX, needsHold, holdDuration) ==
    [earliestJumpX |-> Min(earliestJumpX, latestJumpX),
     latestJumpX |-> Max(earliestJumpX, latestJumpX),
     needsHold |-> needsHold,
     holdDuration |-> holdDuration]

calculateClearanceWindow(obstacleX, obstacleWidth, obstacleHeight, jumpForce, gravity, speed) ==
    TheValue({
        LET firstAboveX == defaultFirstAboveX(off.firstAboveX)
            lastAboveX == defaultLastAboveX(off.lastAboveX)
            latestJumpX == obstacleX - firstAboveX
            earliestJumpX == obstacleX + obstacleWidth - lastAboveX
        IN  clearanceResult(earliestJumpX, latestJumpX, off.needsHold, off.holdDuration)
        : off \in {clearanceOffsets(obstacleHeight, jumpForce, gravity, speed)} })

----------------------------------------------------------------------------
(* generateJumpWindowLevel (gravity mode) *)

baseWindowWidth(difficulty) == Max(220 - difficulty * 12, 60)
minSpacing(difficulty) == Max(400 - difficulty * 15, 180)
maxSpacing(difficulty) == minSpacing(difficulty) + 150
baseObstacleHeight(difficulty) == 45 + difficulty * 3
obstacleHeightVariation == 15
(* Math.min(0.1 + difficulty * 0.04, 0.5), in hundredths *)
holdJumpProbability(difficulty) == Min(10 + difficulty * 4, 50)

(* Mutant: the hold is forced one obstacle late. *)
forceHeldForLevel1Late(difficulty, hasHeld, count) ==
    difficulty = 1 /\ ~hasHeld /\ count >= 3

forceHeldForLevel1(difficulty, hasHeld, count) ==
    difficulty = 1 /\ ~hasHeld /\ count >= 2

isHoldJumpOf(difficulty, hasHeld, count, rand) ==
    \/ forceHeldForLevel1(difficulty, hasHeld, count)
    \/ (rand < holdJumpProbability(difficulty) /\ difficulty >= 2)

(* The if / else-if chain choosing the obstacle: rand is the first draw,   *)
(* rh the draw of the height variation (not drawn for a gap).              *)
chooseObstacle(difficulty, isHoldJump, rand, rh) ==
    IF isHoldJump
    THEN [height |-> (baseObstacleHeight(difficulty) + 30) * YUnit + (rh * 20 * YUnit) \div RandUnit,
          width |-> (50 + difficulty * 2) * XUnit,
          type |-> "block"]
    ELSE IF rand < 50
    THEN [height |-> baseObstacleHeight(difficulty) * YUnit
                       + (rh * obstacleHeightVariation * YUnit) \div RandUnit,
          width |-> (35 + difficulty * 2) * XUnit,
          type |-> "spike"]
    ELSE IF rand < 85
    THEN [height |-> (baseObstacleHeight(difficulty) - 10) * YUnit
                       + (rh * obstacleHeightVariation * YUnit) \div RandUnit,
          width |-> (50 + difficulty * 3) * XUnit,
          type |-> "block"]
    ELSE [height |-> 100 * YUnit,
          width |-> (70 + difficulty * 4) * XUnit,
          type |-> "gap"]

makeObstacle(ox, oy, width, height, type) ==
    [x |-> ox, y |-> oy, width |-> width, height |-> height, type |-> type]

(* Mutant: the two ends of the window are exchanged. *)
makeJumpWindowSwapped(startX, endX, type, holdDuration) ==
    [startX |-> endX, endX |-> startX, type |-> type, holdDuration |-> holdDuration]

(* A jump window.  holdDuration is the set of the durations the window     *)
(* carries: {} when the property is absent or undefined, {ms} otherwise.   *)
makeJumpWindow(startX, endX, type, holdDuration) ==
    [startX |-> startX, endX |-> endX, type |-> type, holdDuration |-> holdDuration]

(* Mutant: the window of a gap lies a jump's length further back. *)
gapJumpWindowFar(ox) ==
    makeJumpWindow(ox - 420 * XUnit, ox - 320 * XUnit, "tap", {})

gapJumpWindow(ox) ==
    makeJumpWindow(ox - 120 * XUnit, ox - 20 * XUnit, "tap", {})

(* Mutant: the excess is taken off the two ends in equal halves. *)
shrinkWindowEvenly(windowStart, windowEnd, target) ==
    LET actualWindowWidth == windowEnd - windowStart
        excess == actualWindowWidth - target
    IN  IF actualWindowWidth > target
        THEN [windowStart |-> windowStart + (excess * 5) \div 10,
              windowEnd |-> windowEnd - (excess * 5) \div 10]
        ELSE [windowStart |-> windowStart, windowEnd |-> windowEnd]

(* Mutant: the shares of the excess are 3 and 7, not 0.3 and 0.7. *)
shrinkWindowWholeShares(windowStart, windowEnd, target) ==
    LET actualWindowWidth == windowEnd - windowStart
        excess == actualWindowWidth - target
    IN  IF actualWindowWidth > target
        THEN [windowStart |-> windowStart + excess * 3,
              windowEnd |-> windowEnd - excess * 7]
        ELSE [windowStart |-> windowStart, windowEnd |-> windowEnd]

(* The shrink of the natural window to the target width. *)
shrinkWindow(windowStart, windowEnd, target) ==
    LET actualWindowWidth == windowEnd - windowStart
        excess == actualWindowWidth - target
    IN  IF actualWindowWidth > target
        THEN [windowStart |-> windowStart + (excess * 3) \div 10,
              windowEnd |-> windowEnd - (excess * 7) \div 10]
        ELSE [windowStart |-> windowStart, windowEnd |-> windowEnd]

(* if (windowEnd < windowStart) windowEnd = windowStart + 30 *)
validWindow(w) ==
    IF w.windowEnd < w.windowStart
    THEN [windowStart |-> w.windowStart, windowEnd |-> w.windowStart + 30 * XUnit]
    ELSE w

(* clearance.holdDuration * 1000: ticks of 1/60 s to ms *)
holdDurationMs(holdDuration) == (holdDuration * 1000) \div TicksPerSecond

windowType(isHoldJump, needsHold) ==
    IF isHoldJump \/ needsHold THEN "hold" ELSE "tap"

(* Mutant: the duration is written whatever the type. *)
windowHoldDurationAlways(isHoldJump, clr) ==
    {holdDurationMs(clr.holdDuration)}

windowHoldDuration(isHoldJump, clr) ==
    IF isHoldJump \/ clr.needsHold THEN {holdDurationMs(clr.holdDuration)} ELSE {}

solvedJumpWindow(difficulty, isHoldJump, clr) ==
    LET w == validWindow(shrinkWindow(clr.earliestJumpX, clr.latestJumpX,
                                      baseWindowWidth(difficulty) * XUnit))
    IN  makeJumpWindow(w.windowStart, w.windowEnd,
                       windowType(isHoldJump, clr.needsHold),
                       windowHoldDuration(isHoldJump, clr))

(* Mutant: a gap gets the solver's window like any other obstacle. *)
jumpWindowForSolved(difficulty, ox, type, isHoldJump, clr) ==
    solvedJumpWindow(difficulty, isHoldJump, clr)

jumpWindowFor(difficulty, ox, type, isHoldJump, clr) ==
    IF type = "gap" THEN gapJumpWindow(ox) ELSE solvedJumpWindow(difficulty, isHoldJump, clr)

(* const spacing = minSpacing + Math.random() * (maxSpacing - minSpacing) *)
spacingOf(difficulty, rs) ==
    minSpacing(difficulty) * XUnit
      + (rs * (maxSpacing(difficulty) - minSpacing(difficulty)) * XUnit) \div RandUnit

(* Mutant: the cursor advances by the spacing alone. *)
nextCursorNoWidth(cursor, obstacleWidth, spacing) == cursor + spacing

(* x += obstacleWidth + spacing *)
nextCursor(cursor, obstacleWidth, spacing) == cursor + obstacleWidth + spacing

(* Mutant: the end zone is not kept free. *)
gravityLoopGuardNoEndZone(cursor, len) == cursor < len * XUnit

(* Mutant: a cursor on the end-zone boundary still passes the test. *)
gravityLoopGuardInclusive(cursor, len) == cursor <= (len - 400) * XUnit

(* while (x < length - 400) *)
gravityLoopGuard(cursor, len) == cursor < (len - 400) * XUnit

gravityStartX == 600

----------------------------------------------------------------------------
(* generateWaveObstacles *)

waveSpacing(difficulty) == Max(180 - difficulty * 8, 100)
(* Math.max(0.42 - difficulty * 0.015, 0.22), in 1/20000 *)
waveGapSize(difficulty) == Max(8400 - difficulty * 300, 4400)
(* 0.2 + Math.random() * 0.5, in 1/20000 *)
waveGapY(rg) == 4000 + rg * 100
(* gapSize + Math.random() * 0.08, in 1/20000 *)
waveActualGapSize(difficulty, ra) == waveGapSize(difficulty) + ra * 16
waveObstacleWidth(difficulty) == (55 + difficulty * 2) * XUnit

waveTopObstacle(ox, difficulty, gapY, actualGapSize) ==
    makeObstacle(ox, 0, waveObstacleWidth(difficulty), gapY - actualGapSize \div 2, "block")

waveBottomObstacle(ox, difficulty, gapY, actualGapSize) ==
    makeObstacle(ox, gapY + actualGapSize \div 2, waveObstacleWidth(difficulty),
                 FracUnit - (gapY + actualGapSize \div 2), "block")

(* gapY < 0.4 ? 'hold' : 'tap'; the window has no holdDuration property *)
waveJumpWindow(ox, difficulty, gapY) ==
    makeJumpWindow(ox - 100 * XUnit, ox + waveObstacleWidth(difficulty),
                   IF gapY < (4 * FracUnit) \div 10 THEN "hold" ELSE "tap", {})

(* x += spacing + Math.random() * 80 *)
waveNextCursor(cursor, difficulty, rs) ==
    cursor + waveSpacing(difficulty) * XUnit + (rs * 80 * XUnit) \div RandUnit

(* while (x < length - 200) *)
waveLoopGuard(cursor, len) == cursor < (len - 200) * XUnit

waveStartX == 600

----------------------------------------------------------------------------
(* The levels table: the parameters of each tier *)
NumLevels == 15
levelMode(difficulty) == IF (difficulty - 1) % 2 = 0 THEN "gravity" ELSE "wave"
levelLength(difficulty) == 3000 + difficulty * 400
levelSpeed(difficulty) == 180 + difficulty * 12
levelGravity(difficulty) == 650 + difficulty * 20
levelJumpForce(difficulty) == -420 - difficulty * 6

----------------------------------------------------------------------------
(* Bounds of the model *)

(* Course lengths: besides each tier's own table length (Level1Spec), the  *)
(* generators are run on short courses reaching from the empty course      *)
(* (the start zone meets the end zone) to MaxLengthSteps steps beyond it.  *)
MaxLengthSteps == 2

CourseLengths(m) ==
    IF m = "gravity"
    THEN {1000 + 250 * k : k \in 0..MaxLengthSteps}
    ELSE {800 + 100 * k : k \in 0..MaxLengthSteps}

(* Course lengths of the calls followed to their return: the empty        *)
(* course, a course of one obstacle and one of up to three.                *)
TerminationLengths == {1000, 1250, 1500}

(* Draws of Math.random(), in hundredths.  The category draws reach every  *)
(* branch of the chain at every tier: 5 is below every hold probability,   *)
(* 45 below 0.5, 60 below 0.85, 90 above.                                  *)
CategoryDraws == {5, 45, 60, 90}
HeightDraws == {0, 99}
(* A tier's table course is long (five or six obstacles at tier 1), so on  *)
(* it the height variation is drawn from one value; the category and the   *)
(* spacing keep their draws.                                               *)
TableCourseHeightDraws == {50}
HeightDrawsOf(d, len) ==
    IF len = levelLength(d) THEN TableCourseHeightDraws ELSE HeightDraws
SpacingDraws == {0, 50}
GapYDraws == {0, 50}
GapSizeDraws == {0, 99}

(* Inputs of the clearance solver when it is run on its own *)
SolverObstacleX == {100, 1000}
SolverWidths == {0, 40, 130, 400}
SolverHeights == {0, 6, 20, 60, 100, 120, 140, 700}
(* Gravities for a short jump (impulse -100), where a hold makes the body  *)
(* bounce within the sweep: from one that a tap clears to one too strong   *)
(* for any hold.                                                           *)
SolverGravities == {200, 300, 500, 670, 2000}
SolverMotions ==
    {[jumpForce |-> levelJumpForce(d), gravity |-> levelGravity(d), speed |-> levelSpeed(d)]
        : d \in {1, 15}}
    \cup {[jumpForce |-> -426, gravity |-> 0, speed |-> 192],
          [jumpForce |-> -900, gravity |-> 670, speed |-> 60],
          [jumpForce |-> -100, gravity |-> 2000, speed |-> 400]}
    \cup {[jumpForce |-> -100, gravity |-> g, speed |-> 192] : g \in SolverGravities}

(* The arguments of a simulateJump call *)
simulateArgs(startX, jf, g, sp, holdDuration) ==
    [startX |-> startX, jumpForce |-> jf, gravity |-> g, speed |-> sp,
     holdDuration |-> holdDuration]

(* Inputs of the simulator when it is run on its own: the tap and the ten  *)
(* holds of the solver's sweep with the difficulty-1 parameters and with   *)
(* the spec's example, an impulse that reaches the ceiling, no gravity,    *)
(* jumps short enough for a hold to bounce, and holds longer than the      *)
(* 10-second bound.                                                        *)
SweptHolds == {holdCandidate(k) : k \in 0..10}
LongHold == 11 * TicksPerSecond
SimulatorInputs ==
    {simulateArgs(0, levelJumpForce(1), levelGravity(1), levelSpeed(1), hd) : hd \in SweptHolds}
    \cup {simulateArgs(0, -420, 650, 180, hd) : hd \in {0, holdCandidate(2)}}
    \cup {simulateArgs(0, -1000, 670, 60, hd) : hd \in {0, holdCandidate(10)}}
    \cup {simulateArgs(1000 * XUnit, -426, 0, 192, hd) : hd \in {0, holdCandidate(5), LongHold}}
    \cup {simulateArgs(0, -100, 2000, 400, hd) : hd \in SweptHolds}
    \cup {simulateArgs(0, -200, 3000, 192, hd) : hd \in {holdCandidate(1), holdCandidate(3)}}
    \cup {simulateArgs(0, levelJumpForce(1), levelGravity(1), levelSpeed(1), LongHold)}

(* The number of calls in a row, and their inputs *)
MaxCalls == 3
RepeatedInputs ==
    {simulateArgs(0, -420, 650, 180, 0),
     simulateArgs(0, -420, 650, 180, holdCandidate(10)),
     simulateArgs(600 * XUnit, -100, 2000, 400, holdCandidate(5)),
     simulateArgs(0, -100, 2000, 400, holdCandidate(5))}

----------------------------------------------------------------------------
(* State *)
VARIABLES
    pc,              \* "loop": in a generator's while loop; "returned";
                     \* "solve" / "solved": a solver call on its own
    mode,            \* 'gravity' | 'wave'
    difficulty, length, speed, jumpForce, gravity,   \* the generator's arguments
    x,               \* the cursor
    obstacleCount,
    hasHadHeldJump,
    obstacles,
    jumpWindows,
    call,            \* the arguments of the latest solver call: {} or {args}
    clearance,       \* the result of the latest solver call: {} or {result}
    sim,             \* the simulateJump call in progress or just returned:
                     \* {} or {[args, s]}, s the locals of the loop
    simulated,       \* the simulateJump calls returned so far, in order:
                     \* their arguments and the positions they returned
    levels,          \* the levels table of levels.ts, filled while the module loads
    generatorRuns,   \* the calls of generateJumpWindowLevel made so far
    midiAccess,      \* what navigator.requestMIDIAccess does in this browser
    midiGenerators,  \* the MusicGenerator objects created so far
    synths,          \* the AudioSynth objects created so far
    awaiting,        \* the initAudio calls suspended at their await, each
                     \* named by the MusicGenerator whose init() it awaits
    scene,           \* the running scene: "none" | "MenuScene" | "GameScene"
    menuSynth, menuMidiGenerator, menuHasMidi,   \* MenuScene's fields
    levelIndex, currentLevel, isDead,            \* GameScene's fields
    gameSynth, gameMidiGenerator, gameHasMidi,
    delayedCall,     \* the scene's pending timer: {} | {"restart"} | {"next"}
    victoryShown     \* the victory screen is up

sceneVars == <<levels, generatorRuns, midiAccess, midiGenerators, synths, awaiting,
               scene, menuSynth, menuMidiGenerator, menuHasMidi,
               levelIndex, currentLevel, isDead,
               gameSynth, gameMidiGenerator, gameHasMidi, delayedCall, victoryShown>>

vars == <<pc, mode, difficulty, length, speed, jumpForce, gravity, x, obstacleCount,
          hasHadHeldJump, obstacles, jumpWindows, call, clearance, sim, simulated,
          sceneVars>>

(* No page is loaded: the generator, the solver or the simulator runs on   *)
(* its own, as in the test scripts.                                        *)
SceneIdle ==
    /\ levels = <<>>
    /\ generatorRuns = 0
    /\ midiAccess = "unsupported"
    /\ midiGenerators = <<>>
    /\ synths = <<>>
    /\ awaiting = {}
    /\ scene = "none"
    /\ menuSynth = {} /\ menuMidiGenerator = {} /\ menuHasMidi = FALSE
    /\ levelIndex = 0 /\ currentLevel = {} /\ isDead = FALSE
    /\ gameSynth = {} /\ gameMidiGenerator = {} /\ gameHasMidi = FALSE
    /\ delayedCall = {}
    /\ victoryShown = FALSE

solverArgs(obstacleX, obstacleWidth, obstacleHeight, jf, g, sp) ==
    [obstacleX |-> obstacleX, obstacleWidth |-> obstacleWidth,
     obstacleHeight |-> obstacleHeight, jumpForce |-> jf, gravity |-> g, speed |-> sp]

(* Mutant: no window is pushed for a gap. *)
emitGravityNoGapWindow(obs, wins, obstacle, window) ==
    [obstacles |-> Append(obs, obstacle),
     jumpWindows |-> IF obstacle.type = "gap" THEN wins ELSE Append(wins, window)]

(* obstacles.push(...); jumpWindows.push(...) of one gravity iteration *)
emitGravity(obs, wins, obstacle, window) ==
    [obstacles |-> Append(obs, obstacle), jumpWindows |-> Append(wins, window)]

(* Mutant: only the top block is pushed. *)
emitWaveTopOnly(obs, wins, top, bottom, window) ==
    [obstacles |-> Append(obs, top), jumpWindows |-> Append(wins, window)]

(* the three pushes of one wave iteration *)
emitWave(obs, wins, top, bottom, window) ==
    [obstacles |-> Append(Append(obs, top), bottom), jumpWindows |-> Append(wins, window)]

(* The state at the first test of a generator's while loop *)
GeneratorStart(m, d, len) ==
    /\ pc = "loop"
    /\ mode = m
    /\ difficulty = d
    /\ length = len
    /\ speed = levelSpeed(d)
    /\ jumpForce = IF m = "gravity" THEN levelJumpForce(d) ELSE -200 - d * 6
    /\ gravity = IF m = "gravity" THEN levelGravity(d) ELSE 0
    /\ x = (IF m = "gravity" THEN gravityStartX ELSE waveStartX) * XUnit
    /\ obstacleCount = 0
    /\ hasHadHeldJump = FALSE
    /\ obstacles = <<>>
    /\ jumpWindows = <<>>
    /\ call = {}
    /\ clearance = {}
    /\ sim = {}
    /\ simulated = <<>>
    /\ SceneIdle

Init ==
    \E m \in {"gravity", "wave"} : \E d \in 1..NumLevels : \E len \in CourseLengths(m) :
        GeneratorStart(m, d, len)

(* One pass of the gravity generator's while loop *)
GravityIteration ==
    /\ pc = "loop"
    /\ mode = "gravity"
    /\ gravityLoopGuard(x, length)
    /\ \E rand \in CategoryDraws : \E rh \in HeightDrawsOf(difficulty, length) : \E rs \in SpacingDraws :
       \E isHoldJump \in {isHoldJumpOf(difficulty, hasHadHeldJump, obstacleCount, rand)} :
       \E o \in {chooseObstacle(difficulty, isHoldJump, rand, rh)} :
       \E args \in {solverArgs(x, o.width, IF o.type = "gap" THEN 0 ELSE o.height,
                               jumpForce, gravity, speed)} :
       \E clr \in {calculateClearanceWindow(args.obstacleX, args.obstacleWidth,
                                            args.obstacleHeight, args.jumpForce,
                                            args.gravity, args.speed)} :
       \E out \in {emitGravity(obstacles, jumpWindows,
                               makeObstacle(x, 1, o.width, o.height, o.type),
                               jumpWindowFor(difficulty, x, o.type, isHoldJump, clr))} :
            /\ hasHadHeldJump' = (hasHadHeldJump \/ isHoldJump)
            /\ call' = {args}
            /\ clearance' = {clr}
            /\ obstacles' = out.obstacles
            /\ jumpWindows' = out.jumpWindows
            /\ x' = nextCursor(x, o.width, spacingOf(difficulty, rs))
            /\ obstacleCount' = obstacleCount + 1
    /\ UNCHANGED <<pc, mode, difficulty, length, speed, jumpForce, gravity, sim, simulated, sceneVars>>

(* One pass of the wave generator's while loop *)
WaveIteration ==
    /\ pc = "loop"
    /\ mode = "wave"
    /\ waveLoopGuard(x, length)
    /\ \E rg \in GapYDraws : \E ra \in GapSizeDraws : \E rs \in SpacingDraws :
       \E gapY \in {waveGapY(rg)} :
       \E actualGapSize \in {waveActualGapSize(difficulty, ra)} :
       \E out \in {emitWave(obstacles, jumpWindows,
                            waveTopObstacle(x, difficulty, gapY, actualGapSize),
                            waveBottomObstacle(x, difficulty, gapY, actualGapSize),
                            waveJumpWindow(x, difficulty, gapY))} :
            /\ obstacles' = out.obstacles
            /\ jumpWindows' = out.jumpWindows
            /\ x' = waveNextCursor(x, difficulty, rs)
    /\ UNCHANGED <<pc, mode, difficulty, length, speed, jumpForce, gravity,
                   obstacleCount, hasHadHeldJump, call, clearance, sim, simulated, sceneVars>>

(* The loop test fails: return { obstacles, jumpWindows } *)
Return ==
    /\ pc = "loop"
    /\ IF mode = "gravity" THEN ~gravityLoopGuard(x, length) ELSE ~waveLoopGuard(x, length)
    /\ pc' = "returned"
    /\ UNCHANGED <<mode, difficulty, length, speed, jumpForce, gravity, x, obstacleCount,
                   hasHadHeldJump, obstacles, jumpWindows, call, clearance, sim, simulated, sceneVars>>

Next == GravityIteration \/ WaveIteration \/ Return

Spec == Init /\ [][Next]_vars

(* Level 1 as the detailed test script generates it:                       *)
(* generateJumpWindowLevel(1, 3400, 192, -426, 670)                        *)
Level1Init == GeneratorStart("gravity", 1, levelLength(1))

Level1Next == GravityIteration \/ Return

Level1Spec == Level1Init /\ [][Level1Next]_vars

(* The short courses of every tier and level 1's table course *)
CoursesInit == Init \/ Level1Init

CoursesSpec == CoursesInit /\ [][Next]_vars

(* The gravity generator on its own, on the short courses of every tier *)
GravityInit ==
    \E d \in 1..NumLevels : \E len \in CourseLengths("gravity") :
        GeneratorStart("gravity", d, len)

GravityNext == GravityIteration \/ Return

GravitySpec == GravityInit /\ [][GravityNext]_vars

(* A call that is made runs to its return: the loop is not interrupted.    *)
(* The calls are those on the courses of TerminationLengths, at every      *)
(* tier.                                                                   *)
GravityFairInit ==
    \E d \in 1..NumLevels : \E len \in TerminationLengths :
        GeneratorStart("gravity", d, len)

GravityFairSpec == GravityFairInit /\ [][GravityNext]_vars /\ WF_vars(GravityNext)

(* The clearance solver on its own, on inputs beyond the tiers' *)
SolverInit ==
    /\ pc = "solve"
    /\ mode = "gravity"
    /\ difficulty = 0 /\ length = 0 /\ speed = 0 /\ jumpForce = 0 /\ gravity = 0
    /\ x = 0 /\ obstacleCount = 0 /\ hasHadHeldJump = FALSE
    /\ obstacles = <<>> /\ jumpWindows = <<>>
    /\ \E ox \in SolverObstacleX : \E w \in SolverWidths : \E h \in SolverHeights :
       \E m \in SolverMotions :
          call = {solverArgs(ox * XUnit, w * XUnit, h * YUnit, m.jumpForce, m.gravity, m.speed)}
    /\ clearance = {}
    /\ sim = {}
    /\ simulated = <<>>
    /\ SceneIdle

Solve ==
    /\ pc = "solve"
    /\ \E a \in call :
          clearance' = {calculateClearanceWindow(a.obstacleX, a.obstacleWidth, a.obstacleHeight,
                                                 a.jumpForce, a.gravity, a.speed)}
    /\ pc' = "solved"
    /\ UNCHANGED <<mode, difficulty, length, speed, jumpForce, gravity, x, obstacleCount,
                   hasHadHeldJump, obstacles, jumpWindows, call, sim, simulated, sceneVars>>

SolverNext == Solve

SolverSpec == SolverInit /\ [][SolverNext]_vars

(* simulateJump on its own, one pass of its loop at a time *)

(* The positions array an earlier call left behind *)
earlierPositions ==
    IF sim = {} THEN <<>> ELSE TheValue(sim).s.positions

(* The call: the locals are initialised from the arguments *)
SimulateCall(a) ==
    /\ pc = "idle"
    /\ sim' = {[args |-> a,
                s |-> simulateStart(a.startX, a.jumpForce, a.holdDuration, earlierPositions)]}
    /\ pc' = "simulate"
    /\ UNCHANGED <<mode, difficulty, length, speed, jumpForce, gravity, x, obstacleCount,
                   hasHadHeldJump, obstacles, jumpWindows, call, clearance, simulated, sceneVars>>

(* One pass of the while loop *)
SimulatePass ==
    /\ pc = "simulate"
    /\ \E r \in sim :
          /\ ~simulateDone(r.s)
          /\ sim' = {[args |-> r.args,
                      s |-> simulateStep(r.s, r.args.jumpForce, r.args.gravity, r.args.speed)]}
    /\ UNCHANGED <<pc, mode, difficulty, length, speed, jumpForce, gravity, x, obstacleCount,
                   hasHadHeldJump, obstacles, jumpWindows, call, clearance, simulated, sceneVars>>

(* The loop has ended (its test fails or a break was taken): return positions *)
SimulateReturn ==
    /\ pc = "simulate"
    /\ \E r \in sim :
          /\ simulateDone(r.s)
          /\ simulated' = Append(simulated, [args |-> r.args, positions |-> r.s.positions])
    /\ pc' = "idle"
    /\ UNCHANGED <<mode, difficulty, length, speed, jumpForce, gravity, x, obstacleCount,
                   hasHadHeldJump, obstacles, jumpWindows, call, clearance, sim, sceneVars>>

SimulatorIdle ==
    /\ pc = "idle"
    /\ mode = "gravity"
    /\ difficulty = 0 /\ length = 0 /\ speed = 0 /\ jumpForce = 0 /\ gravity = 0
    /\ x = 0 /\ obstacleCount = 0 /\ hasHadHeldJump = FALSE
    /\ obstacles = <<>> /\ jumpWindows = <<>>
    /\ call = {} /\ clearance = {}
    /\ sim = {}
    /\ simulated = <<>>
    /\ SceneIdle

(* One call, on each of the inputs of SimulatorInputs *)
SimulatorInit == SimulatorIdle

SimulatorCall ==
    /\ simulated = <<>>
    /\ \E a \in SimulatorInputs : SimulateCall(a)

SimulatorNext == SimulatorCall \/ SimulatePass \/ SimulateReturn

SimulatorSpec == SimulatorInit /\ [][SimulatorNext]_vars

(* A call that is made runs to its return: the loop is not interrupted *)
SimulatorFairSpec == SimulatorSpec /\ WF_vars(SimulatorNext)

(* A sequence of up to MaxCalls calls, on the inputs of RepeatedInputs *)
CallsInit == SimulatorIdle

CallsCall ==
    /\ Len(simulated) < MaxCalls
    /\ \E a \in RepeatedInputs : SimulateCall(a)

CallsNext == CallsCall \/ SimulatePass \/ SimulateReturn

CallsSpec == CallsInit /\ [][CallsNext]_vars

----------------------------------------------------------------------------
(* The page: the levels table, the scenes and the music *)

(* What navigator.requestMIDIAccess does: it is missing, its promise is    *)
(* rejected, it resolves without outputs, it resolves with an output.      *)
MidiAccessKinds == {"unsupported", "rejected", "noOutputs", "output"}

(* The inputs that MenuScene.create binds to startGame, and those the      *)
(* victory screen binds to the return to the menu.                         *)
StartInputs == {"pointerdown", "keydown-SPACE", "keydown-ENTER"}
PlayAgainInputs == {"pointerdown", "keydown-SPACE"}

(* MenuScene.create runs at most MaxMenuVisits times in a session *)
MaxMenuVisits == 2

levelMusicTempo(d) == 110 + d * 5

(* The entry that the loop of levels.ts pushes for tier d; run names the   *)
(* generator call that produced its obstacles and jumpWindows.             *)
levelConfig(d, run) ==
    [id |-> d, mode |-> levelMode(d), length |-> levelLength(d), speed |-> levelSpeed(d),
     musicTempo |-> levelMusicTempo(d), run |-> run]

(* Mutant: the level is generated anew when it is looked up. *)
levelRegenerated(table, index) ==
    IF index + 1 \in DOMAIN table
    THEN {[table[index + 1] EXCEPT !.run = Len(table) + index + 1]}
    ELSE {}

(* levels[this.levelIndex]: the entry of the table, or nothing *)
levelAt(table, index) ==
    IF index + 1 \in DOMAIN table THEN {table[index + 1]} ELSE {}

(* MusicGenerator and AudioSynth objects as constructed *)
newMusicGenerator == [isPlaying |-> FALSE, tempo |-> 120]
newAudioSynth == [initialised |-> FALSE, isPlaying |-> FALSE, tempo |-> 120]

(* AudioSynth.init: the audio context and the gain node exist from now on *)
synthInit(s) == [s EXCEPT !.initialised = TRUE]

synthStop(s) == [s EXCEPT !.isPlaying = FALSE]

(* AudioSynth.play: returns at once when playing or not initialised *)
synthPlay(s) ==
    IF s.isPlaying \/ ~s.initialised THEN s ELSE [s EXCEPT !.isPlaying = TRUE]

synthSetTempo(s, bpm) ==
    LET t == [s EXCEPT !.tempo = bpm]
    IN  IF t.isPlaying THEN synthPlay(synthStop(t)) ELSE t

midiStop(g) == [g EXCEPT !.isPlaying = FALSE]

midiPlay(g) == IF g.isPlaying THEN g ELSE [g EXCEPT !.isPlaying = TRUE]

midiSetTempo(g, bpm) ==
    LET t == [g EXCEPT !.tempo = bpm]
    IN  IF t.isPlaying THEN midiPlay(midiStop(t)) ELSE t

(* MusicGenerator.init: the value its promise resolves to *)
midiInitResult(kind) == kind = "output"

(* startGame, its first statement: play the MIDI generator, else the synth *)
startMusic(hasMidi, generator, synth, gens, syns) ==
    IF hasMidi /\ generator # {}
    THEN [midiGenerators |->
              [i \in DOMAIN gens |-> IF i \in generator THEN midiPlay(gens[i]) ELSE gens[i]],
          synths |-> syns]
    ELSE IF synth # {}
    THEN [midiGenerators |-> gens,
          synths |->
              [i \in DOMAIN syns |-> IF i \in synth THEN synthPlay(syns[i]) ELSE syns[i]]]
    ELSE [midiGenerators |-> gens, synths |-> syns]

(* GameScene.create, the tempo update *)
updateTempo(hasMidi, generator, synth, gens, syns, bpm) ==
    IF hasMidi /\ generator # {}
    THEN [midiGenerators |->
              [i \in DOMAIN gens |->
                  IF i \in generator THEN midiSetTempo(gens[i], bpm) ELSE gens[i]],
          synths |-> syns]
    ELSE IF synth # {}
    THEN [midiGenerators |-> gens,
          synths |->
              [i \in DOMAIN syns |->
                  IF i \in synth THEN synthSetTempo(syns[i], bpm) ELSE syns[i]]]
    ELSE [midiGenerators |-> gens, synths |-> syns]

(* The state when the page starts to load: the table is empty, no scene   *)
(* runs yet.                                                               *)
PageStart(kind) ==
    /\ pc = "idle"
    /\ mode = "gravity"
    /\ difficulty = 0 /\ length = 0 /\ speed = 0 /\ jumpForce = 0 /\ gravity = 0
    /\ x = 0 /\ obstacleCount = 0 /\ hasHadHeldJump = FALSE
    /\ obstacles = <<>> /\ jumpWindows = <<>>
    /\ call = {} /\ clearance = {}
    /\ sim = {}
    /\ simulated = <<>>
    /\ levels = <<>>
    /\ generatorRuns = 0
    /\ midiAccess = kind
    /\ midiGenerators = <<>>
    /\ synths = <<>>
    /\ awaiting = {}
    /\ scene = "none"
    /\ menuSynth = {} /\ menuMidiGenerator = {} /\ menuHasMidi = FALSE
    /\ levelIndex = 0 /\ currentLevel = {} /\ isDead = FALSE
    /\ gameSynth = {} /\ gameMidiGenerator = {} /\ gameHasMidi = FALSE
    /\ delayedCall = {}
    /\ victoryShown = FALSE

generatorVars == <<pc, mode, difficulty, length, speed, jumpForce, gravity, x, obstacleCount,
                   hasHadHeldJump, obstacles, jumpWindows, call, clearance, sim, simulated>>

(* One iteration of the loop of levels.ts: a generator call, and the push *)
LoadLevel ==
    /\ scene = "none"
    /\ Len(levels) < NumLevels
    /\ generatorRuns' = generatorRuns + 1
    /\ levels' = Append(levels, levelConfig(Len(levels) + 1, generatorRuns + 1))
    /\ UNCHANGED <<generatorVars, midiAccess, midiGenerators, synths, awaiting, scene,
                   menuSynth, menuMidiGenerator, menuHasMidi, levelIndex, currentLevel,
                   isDead, gameSynth, gameMidiGenerator, gameHasMidi, delayedCall,
                   victoryShown>>

(* initAudio after its await, for the call that created generator g: the  *)
(* result is stored, and the synth is created and initialised when it is  *)
(* false. gens is the list of generators at that point.                    *)
InitAudioResume(g, gens) ==
    /\ midiGenerators' = gens
    /\ menuHasMidi' = midiInitResult(midiAccess)
    /\ IF midiInitResult(midiAccess)
       THEN UNCHANGED <<menuSynth, synths>>
       ELSE /\ synths' = Append(synths, synthInit(newAudioSynth))
            /\ menuSynth' = {Len(synths) + 1}

(* MenuScene.create: the handlers are bound and initAudio is called. Where *)
(* requestMIDIAccess is missing, init() returns false without awaiting     *)
(* the browser, and initAudio resumes before any input is delivered;       *)
(* elsewhere it stays suspended until the browser answers.                 *)
MenuSceneCreate ==
    /\ scene' = "MenuScene"
    /\ \E g \in {Len(midiGenerators) + 1} :
       \E gens \in {Append(midiGenerators, newMusicGenerator)} :
          /\ menuMidiGenerator' = {g}
          /\ IF midiAccess = "unsupported"
             THEN /\ InitAudioResume(g, gens)
                  /\ UNCHANGED awaiting
             ELSE /\ midiGenerators' = gens
                  /\ awaiting' = awaiting \cup {g}
                  /\ UNCHANGED <<menuHasMidi, menuSynth, synths>>

(* The module has loaded: the game boots into the menu *)
Boot ==
    /\ scene = "none"
    /\ Len(levels) = NumLevels
    /\ MenuSceneCreate
    /\ UNCHANGED <<generatorVars, levels, generatorRuns, midiAccess, levelIndex,
                   currentLevel, isDead, gameSynth, gameMidiGenerator, gameHasMidi,
                   delayedCall, victoryShown>>

(* The browser answers requestMIDIAccess: the suspended initAudio resumes, *)
(* whichever scene is running.                                             *)
MidiAccessAnswered ==
    /\ \E g \in awaiting :
          /\ InitAudioResume(g, midiGenerators)
          /\ awaiting' = awaiting \ {g}
    /\ UNCHANGED <<generatorVars, levels, generatorRuns, midiAccess, scene,
                   menuMidiGenerator, levelIndex, currentLevel, isDead, gameSynth,
                   gameMidiGenerator, gameHasMidi, delayedCall, victoryShown>>

(* GameScene.init and GameScene.create for data = {level, synth,           *)
(* midiGenerator, hasMidi}; gens and syns are the music objects as the     *)
(* caller leaves them. levels[levelIndex] exists at every call (startGame  *)
(* passes 1, die the same level, completeLevel the next one only when      *)
(* there is one), so create's return to the menu is not taken.             *)
GameSceneStart(level, synth, generator, hasMidi, gens, syns) ==
    /\ levelAt(levels, level - 1) # {}
    /\ scene' = "GameScene"
    /\ levelIndex' = level - 1
    /\ gameSynth' = synth
    /\ gameMidiGenerator' = generator
    /\ gameHasMidi' = hasMidi
    /\ isDead' = FALSE
    /\ delayedCall' = {}
    /\ victoryShown' = FALSE
    /\ \E entry \in levelAt(levels, level - 1) :
       \E music \in {updateTempo(hasMidi, generator, synth, gens, syns, entry.musicTempo)} :
          /\ currentLevel' = {entry}
          /\ midiGenerators' = music.midiGenerators
          /\ synths' = music.synths

(* MenuScene.startGame, on any of its three inputs *)
StartGame ==
    /\ scene = "MenuScene"
    /\ \E input \in StartInputs :
       \E music \in {startMusic(menuHasMidi, menuMidiGenerator, menuSynth,
                                midiGenerators, synths)} :
          GameSceneStart(1, menuSynth, menuMidiGenerator, menuHasMidi,
                         music.midiGenerators, music.synths)
    /\ UNCHANGED <<generatorVars, levels, generatorRuns, midiAccess, awaiting,
                   menuSynth, menuMidiGenerator, menuHasMidi>>

(* GameScene.die: a collision in update, which returns at once when dead *)
Die ==
    /\ scene = "GameScene"
    /\ ~isDead
    /\ isDead' = TRUE
    /\ delayedCall' = {"restart"}
    /\ UNCHANGED <<generatorVars, levels, generatorRuns, midiAccess, midiGenerators,
                   synths, awaiting, scene, menuSynth, menuMidiGenerator, menuHasMidi,
                   levelIndex, currentLevel, gameSynth, gameMidiGenerator, gameHasMidi,
                   victoryShown>>

(* The timer of die: scene.restart with the same level *)
RestartLevel ==
    /\ scene = "GameScene"
    /\ delayedCall = {"restart"}
    /\ GameSceneStart(levelIndex + 1, gameSynth, gameMidiGenerator, gameHasMidi,
                      midiGenerators, synths)
    /\ UNCHANGED <<generatorVars, levels, generatorRuns, midiAccess, awaiting,
                   menuSynth, menuMidiGenerator, menuHasMidi>>

(* GameScene.completeLevel: update finds worldX beyond the level's length *)
CompleteLevel ==
    /\ scene = "GameScene"
    /\ ~isDead
    /\ isDead' = TRUE
    /\ delayedCall' = {"next"}
    /\ UNCHANGED <<generatorVars, levels, generatorRuns, midiAccess, midiGenerators,
                   synths, awaiting, scene, menuSynth, menuMidiGenerator, menuHasMidi,
                   levelIndex, currentLevel, gameSynth, gameMidiGenerator, gameHasMidi,
                   victoryShown>>

(* The timer of completeLevel, a next level exists: scene.restart with it *)
NextLevel ==
    /\ scene = "GameScene"
    /\ delayedCall = {"next"}
    /\ ~(levelIndex + 1 >= Len(levels))
    /\ GameSceneStart(levelIndex + 2, gameSynth, gameMidiGenerator, gameHasMidi,
                      midiGenerators, synths)
    /\ UNCHANGED <<generatorVars, levels, generatorRuns, midiAccess, awaiting,
                   menuSynth, menuMidiGenerator, menuHasMidi>>

(* The timer of completeLevel, the last level: showVictoryScreen *)
ShowVictoryScreen ==
    /\ scene = "GameScene"
    /\ delayedCall = {"next"}
    /\ levelIndex + 1 >= Len(levels)
    /\ delayedCall' = {}
    /\ victoryShown' = TRUE
    /\ UNCHANGED <<generatorVars, levels, generatorRuns, midiAccess, midiGenerators,
                   synths, awaiting, scene, menuSynth, menuMidiGenerator, menuHasMidi,
                   levelIndex, currentLevel, isDead, gameSynth, gameMidiGenerator,
                   gameHasMidi>>

(* The victory screen's button or SPACE: scene.start('MenuScene') *)
PlayAgain ==
    /\ scene = "GameScene"
    /\ victoryShown
    /\ Len(midiGenerators) < MaxMenuVisits
    /\ \E input \in PlayAgainInputs : MenuSceneCreate
    /\ victoryShown' = FALSE
    /\ UNCHANGED <<generatorVars, levels, generatorRuns, midiAccess, levelIndex,
                   currentLevel, isDead, gameSynth, gameMidiGenerator, gameHasMidi,
                   delayedCall>>

SessionInit == \E kind \in MidiAccessKinds : PageStart(kind)

SessionNext ==
    \/ LoadLevel
    \/ Boot
    \/ MidiAccessAnswered
    \/ StartGame
    \/ Die
    \/ RestartLevel
    \/ CompleteLevel
    \/ NextLevel
    \/ ShowVictoryScreen
    \/ PlayAgain

SessionSpec == SessionInit /\ [][SessionNext]_vars

----------------------------------------------------------------------------
(* Properties *)

Windows == 1..Len(jumpWindows)
Obstacles == 1..Len(obstacles)

(* The window the gravity generator derives for an obstacle at o.x of      *)
(* o.width and o.height: its two ends.                                     *)
derivedEnds(o) ==
    IF o.type = "gap"
    THEN [windowStart |-> o.x - 120 * XUnit, windowEnd |-> o.x - 20 * XUnit]
    ELSE LET clr == calculateClearanceWindow(o.x, o.width, o.height, jumpForce, gravity, speed)
         IN  validWindow(shrinkWindow(clr.earliestJumpX, clr.latestJumpX,
                                      baseWindowWidth(difficulty) * XUnit))

(* C1: in the gravity generator, after every iteration, obstacles.length   *)
(* = jumpWindows.length = the number of iterations executed, and window i  *)
(* is the one emitted in the same iteration as obstacle i: an iteration    *)
(* appends one obstacle and one window, the window derived for that        *)
(* obstacle, and leaves the earlier ones as they are; the return changes   *)
(* neither list.                                                           *)
C1_GravityAligned ==
    /\ [](mode = "gravity" /\ pc \in {"loop", "returned"} =>
            /\ Len(obstacles) = obstacleCount
            /\ Len(jumpWindows) = obstacleCount
            /\ obstacleCount >= 1 =>
                  \E ends \in {derivedEnds(obstacles[obstacleCount])} :
                      /\ jumpWindows[obstacleCount].startX = ends.windowStart
                      /\ jumpWindows[obstacleCount].endX = ends.windowEnd)
    /\ [][mode = "gravity" /\ pc = "loop" =>
            IF pc' = "returned"
            THEN obstacles' = obstacles /\ jumpWindows' = jumpWindows
            ELSE /\ obstacleCount' = obstacleCount + 1
                 /\ Len(obstacles') = Len(obstacles) + 1
                 /\ Len(jumpWindows') = Len(jumpWindows) + 1
                 /\ SubSeq(obstacles', 1, Len(obstacles)) = obstacles
                 /\ SubSeq(jumpWindows', 1, Len(jumpWindows)) = jumpWindows]_vars

C1_Witness ==
    /\ mode = "gravity" /\ pc = "returned" /\ obstacleCount >= 2
    /\ \E i, j \in Obstacles : obstacles[i].type = "gap" /\ obstacles[j].type # "gap"

clearsFrom(jx, o, w) ==
    LET hold == IF w.holdDuration = {} THEN 0
                ELSE (TheValue(w.holdDuration) * TicksPerSecond) \div 1000
        trajectory == simulateJump(jx, jumpForce, gravity, speed, hold)
    IN  \A k \in 1..Len(trajectory) :
            (o.x <= trajectory[k].x /\ trajectory[k].x <= o.x + o.width)
                => trajectory[k].y <= GROUND_Y * YUnit - o.height - 30 * YUnit

(* C3: every non-gap obstacle of the gravity generator is cleared by the   *)
(* jump started anywhere in its window (checked at the two ends and the    *)
(* middle).                                                                *)
C3_Clearable ==
    mode = "gravity" =>
        \A i \in Windows :
            obstacles[i].type # "gap" =>
                \A jx \in {jumpWindows[i].startX, jumpWindows[i].endX,
                           (jumpWindows[i].startX + jumpWindows[i].endX) \div 2} :
                    clearsFrom(jx, obstacles[i], jumpWindows[i])

(* C4: every window of either generator has startX <= endX. *)
C4_WindowOrdered ==
    \A i \in Windows : jumpWindows[i].startX <= jumpWindows[i].endX

C4_Witness ==
    /\ pc = "returned"
    /\ \E i, j \in Windows :
          /\ jumpWindows[i].startX < jumpWindows[i].endX
          /\ obstacles[j].type = "gap"
          /\ i # j

C6_SolverOrdered ==
    \A c \in clearance : c.earliestJumpX <= c.latestJumpX

(* A solved call whose bounds as computed were inverted (the obstacle is   *)
(* wider than the span of the offsets) and whose offsets are the defaults. *)
C6_Witness ==
    /\ pc = "solved"
    /\ \E a \in call : \E c \in clearance :
          LET off == clearanceOffsets(a.obstacleHeight, a.jumpForce, a.gravity, a.speed)
          IN  /\ off.firstAboveX < 0
              /\ a.obstacleWidth > 100 * XUnit
              /\ c.earliestJumpX = a.obstacleX - 50 * XUnit
              /\ c.latestJumpX = a.obstacleX + a.obstacleWidth - 150 * XUnit

(* C7: the window of a gap at x is [x - 120, x - 20], tap, without a hold  *)
(* duration, whatever the solver returned.                                 *)
C7_GapWindow ==
    mode = "gravity" =>
        \A i \in Windows :
            obstacles[i].type = "gap" =>
                /\ jumpWindows[i].startX = obstacles[i].x - 120 * XUnit
                /\ jumpWindows[i].endX = obstacles[i].x - 20 * XUnit
                /\ jumpWindows[i].type = "tap"
                /\ jumpWindows[i].holdDuration = {}

(* A gap was emitted whose solver window differs from the heuristic one. *)
C7_Witness ==
    /\ mode = "gravity" /\ Len(obstacles) >= 1
    /\ obstacles[Len(obstacles)].type = "gap"
    /\ \E c \in clearance :
          c.latestJumpX # obstacles[Len(obstacles)].x - 20 * XUnit

C9_SafeZones ==
    mode = "gravity" =>
        /\ \A i \in Obstacles :
              /\ 600 * XUnit <= obstacles[i].x
              /\ obstacles[i].x < (length - 400) * XUnit
        /\ (pc = "returned" /\ length > 1000) => Len(obstacles) >= 1
        /\ (pc = "returned" /\ difficulty = 1 /\ length = 3400) =>
              /\ Len(obstacles) >= 1
              /\ obstacles[1].x >= 600 * XUnit
              /\ obstacles[Len(obstacles)].x < 3000 * XUnit

(* Level 1 returned, its last obstacle within one obstacle and spacing of  *)
(* the end zone.                                                           *)
C9_Witness ==
    /\ mode = "gravity" /\ difficulty = 1 /\ length = 3400 /\ pc = "returned"
    /\ Len(obstacles) >= 5
    /\ obstacles[1].x = 600 * XUnit
    /\ obstacles[Len(obstacles)].x >= 2900 * XUnit

(* C10: every obstacle of either generator has width > 0 and height >= 0. *)
C10_PositiveExtent ==
    \A i \in Obstacles : obstacles[i].width > 0 /\ obstacles[i].height >= 0

(* C11 as claimed: for a fixed obstacle height, impulse and speed and two   *)
(* gravities g1 <= g2, the solver's hold duration for g2 is at least the   *)
(* one for g1.                                                             *)
C11_HoldMonotone ==
    \A a \in call : \A c \in clearance : \A g1 \in SolverGravities :
        g1 <= a.gravity =>
            calculateClearanceWindow(a.obstacleX, a.obstacleWidth, a.obstacleHeight,
                                     a.jumpForce, g1, a.speed).holdDuration
                <= c.holdDuration

(* How the loop of a simulation has ended *)
lastPosition(s) == s.positions[Len(s.positions)]

endedByLanding(s) ==
    /\ s.stopped
    /\ Len(s.positions) >= 1
    /\ lastPosition(s).t = s.t
    /\ lastPosition(s).y = PLAYER_GROUND_Y * YUnit
    /\ ~s.isHolding

endedByBound(s) == s.stopped /\ ~endedByLanding(s) /\ timeExceeded(s.t)

endedByTest(s) == ~s.stopped /\ simulateDone(s)

level1Motion(a) ==
    /\ a.jumpForce = -426 /\ a.gravity = 670 /\ a.speed = 192
    /\ a.holdDuration \in SweptHolds

(* C12: with the difficulty-1 parameters, for a tap and for each hold of   *)
(* the sweep, the simulation never reaches the 10-second bound and ends by *)
(* landing.                                                                *)
C12_Level1Lands ==
    \A r \in sim :
        level1Motion(r.args) =>
            /\ ~timeExceeded(r.s.t)
            /\ simulateDone(r.s) => endedByLanding(r.s)

C12_Witness ==
    /\ pc = "idle"
    /\ \E r \in sim :
          /\ level1Motion(r.args) /\ r.args.holdDuration = holdCandidate(10)
          /\ endedByLanding(r.s)

(* C13: every simulation returns, after at most 601 passes of the loop: no *)
(* pass runs once t has exceeded 10 seconds, and the positions are at most *)
(* 601 (a pass pushes one, the landing one more).                          *)
C13_Terminates ==
    /\ [](\A r \in sim :
            /\ r.s.t <= 10 * TicksPerSecond + 1
            /\ Len(r.s.positions) <= 10 * TicksPerSecond + 1
            /\ timeExceeded(r.s.t) => simulateDone(r.s))
    /\ <>(pc = "idle" /\ Len(simulated) = 1)

(* A simulation without gravity, with a hold longer than the bound, has    *)
(* returned: it was ended by the bound.                                    *)
C13_Witness ==
    /\ pc = "idle"
    /\ \E r \in sim :
          /\ r.args.gravity = 0 /\ r.args.holdDuration = LongHold
          /\ endedByBound(r.s)
          /\ Len(simulated) = 1

C15_LandsOrBound ==
    \A r \in sim :
        (r.args.jumpForce < 0 /\ r.args.gravity > 0 /\ simulateDone(r.s)) =>
            \/ endedByLanding(r.s)
            \/ endedByBound(r.s)

(* A pass of the loop of the simulation in progress, from r.s to q.s *)
passOf(r, q) ==
    /\ pc = "simulate" /\ ~simulateDone(r.s) /\ q.args = r.args /\ q.s.t = r.s.t + 1

(* The samples pushed so far *)
samplesOf(r) == {r.s.positions[k] : k \in 1..Len(r.s.positions)}

(* The velocity of a pass after gravity and the hold were applied, before  *)
(* the body moves                                                          *)
velocityBeforeMove(r) ==
    IF r.s.isHolding /\ r.s.holdTimeRemaining > 0
          /\ r.s.y >= (PLAYER_GROUND_Y - GROUND_DETECTION_THRESHOLD) * YUnit
          /\ r.s.vy + r.args.gravity >= 0
    THEN r.args.jumpForce * TicksPerSecond
    ELSE r.s.vy + r.args.gravity

(* C16: every sample has 80 <= y <= 698, and a pass that would carry y     *)
(* above the top boundary leaves y on the boundary and vy at 0.            *)
C16_PlayableBand ==
    /\ [](\A r \in sim : \A pos \in samplesOf(r) :
            /\ (PLAYABLE_TOP + PLAYER_SIZE \div 2) * YUnit <= pos.y
            /\ pos.y <= PLAYER_GROUND_Y * YUnit)
    /\ [][\A r \in sim : \A q \in sim' :
            (passOf(r, q)
               /\ r.s.y + velocityBeforeMove(r) < (PLAYABLE_TOP + PLAYER_SIZE \div 2) * YUnit)
            => (q.s.y = (PLAYABLE_TOP + PLAYER_SIZE \div 2) * YUnit /\ q.s.vy = 0)]_vars

(* A simulation has returned whose body reached the ceiling and later the  *)
(* ground.                                                                 *)
C16_Witness ==
    /\ pc = "idle"
    /\ \E r \in sim :
          /\ r.args.gravity > 0
          /\ endedByLanding(r.s)
          /\ \E pos \in samplesOf(r) : pos.y = (PLAYABLE_TOP + PLAYER_SIZE \div 2) * YUnit

(* The impulse was re-applied in the pass from r.s to q.s: the velocity is *)
(* the impulse again, which gravity alone does not give.                   *)
reappliedIn(r, q) ==
    /\ q.s.vy = r.args.jumpForce * TicksPerSecond
    /\ r.s.vy + r.args.gravity # r.args.jumpForce * TicksPerSecond

(* C17: the impulse is re-applied only in a pass where the hold flag is    *)
(* set, the remaining hold time is > 0, y is within 5 of the ground and    *)
(* the velocity after gravity is >= 0; the flag is cleared in the pass     *)
(* where the remaining hold time reaches <= 0 and is never set again.      *)
C17_HoldReapplication ==
    [][\A r \in sim : \A q \in sim' :
          passOf(r, q) =>
              /\ reappliedIn(r, q) =>
                    /\ r.s.isHolding
                    /\ r.s.holdTimeRemaining > 0
                    /\ r.s.y >= (PLAYER_GROUND_Y - GROUND_DETECTION_THRESHOLD) * YUnit
                    /\ r.s.vy + r.args.gravity >= 0
              /\ ~r.s.isHolding => ~q.s.isHolding
              /\ (r.s.isHolding /\ ~q.s.isHolding) => q.s.holdTimeRemaining <= 0
              /\ (r.s.isHolding /\ q.s.holdTimeRemaining <= 0) => ~q.s.isHolding]_vars

(* The impulse was re-applied during a hold that has since ended. *)
C17_Witness ==
    /\ pc = "simulate"
    /\ \E r \in sim :
          /\ r.args.holdDuration > 0 /\ ~r.s.isHolding /\ r.s.holdTimeRemaining <= 0
          /\ \E k \in 2..Len(r.s.positions) :
                /\ r.s.positions[k].y < r.s.positions[k - 1].y
                /\ r.s.positions[k - 1].y >= (PLAYER_GROUND_Y - GROUND_DETECTION_THRESHOLD) * YUnit
                /\ k > 2

(* The samples of a trajectory that satisfy the required height, by index, *)
(* and the first and the last of them                                      *)
qualifying(positions, requiredY) ==
    {k \in 1..Len(positions) : positions[k].y <= requiredY}

firstOf(Q) == CHOOSE k \in Q : \A j \in Q : k <= j
lastOf(Q) == CHOOSE k \in Q : \A j \in Q : k >= j

(* The bounds the solver returns for the arguments a when the first and    *)
(* the last qualifying sample are at offsets firstX and lastX              *)
boundsFrom(c, a, firstX, lastX) ==
    /\ c.earliestJumpX = Min(a.obstacleX + a.obstacleWidth - lastX, a.obstacleX - firstX)
    /\ c.latestJumpX = Max(a.obstacleX + a.obstacleWidth - lastX, a.obstacleX - firstX)

(* requiredY = GROUND_Y - obstacleHeight - (PLAYER_SIZE / 2 + 10) *)
requiredYOf(a) ==
    GROUND_Y * YUnit - a.obstacleHeight - (PLAYER_SIZE \div 2 + 10) * YUnit

(* The highest point of a trajectory (the least y of its samples) *)
peakOf(positions) ==
    CHOOSE y \in {positions[k].y : k \in 1..Len(positions)} :
        \A k \in 1..Len(positions) : y <= positions[k].y

(* The candidates of the sweep whose held trajectory, started at offset 0, *)
(* has its peak at the required height or above                            *)
acceptedCandidates(a) ==
    {k \in 1..10 :
        peakOf(simulateJump(0, a.jumpForce, a.gravity, a.speed, holdCandidate(k)))
            <= requiredYOf(a)}

(* C18: needsHold is true exactly when no sample of the tap trajectory     *)
(* started at offset 0 has y <= requiredY; when needsHold is false the     *)
(* hold duration is 0 and the bounds come from the first and the last      *)
(* qualifying sample of the tap trajectory.                                *)
C18_TapDecision ==
    \A a \in call : \A c \in clearance :
        \A tap \in {simulateJump(0, a.jumpForce, a.gravity, a.speed, 0)} :
            \A Q \in {qualifying(tap, requiredYOf(a))} :
                /\ c.needsHold <=> Q = {}
                /\ ~c.needsHold =>
                      /\ c.holdDuration = 0
                      /\ boundsFrom(c, a, tap[firstOf(Q)].x, tap[lastOf(Q)].x)

(* A tap clears a block by less than the player's half extent: no hold is  *)
(* asked for.                                                              *)
C18_Witness ==
    /\ pc = "solved"
    /\ \E a \in call : \E c \in clearance :
          /\ ~c.needsHold /\ c.holdDuration = 0
          /\ a.obstacleHeight > 0
          /\ peakOf(simulateJump(0, a.jumpForce, a.gravity, a.speed, 0))
                > requiredYOf(a) - (PLAYER_SIZE \div 2) * YUnit
          /\ c.earliestJumpX < c.latestJumpX

(* C19: when the tap fails and some candidate of 0.1, ..., 1.0 s has a     *)
(* held trajectory whose peak satisfies the required height, the hold      *)
(* duration returned is the smallest such candidate and the bounds come    *)
(* from the first and the last qualifying sample of its trajectory; the    *)
(* hold duration is never another value than 0 or an accepted candidate.   *)
C19_ShortestHold ==
    \A a \in call : \A c \in clearance :
        \A A \in {acceptedCandidates(a)} :
            /\ c.holdDuration # 0 =>
                  (c.needsHold /\ \E k \in A : c.holdDuration = holdCandidate(k))
            /\ (c.needsHold /\ A # {}) =>
                  \A held \in {simulateJump(0, a.jumpForce, a.gravity, a.speed,
                                            holdCandidate(firstOf(A)))} :
                      \A Q \in {qualifying(held, requiredYOf(a))} :
                          /\ c.holdDuration = holdCandidate(firstOf(A))
                          /\ boundsFrom(c, a, held[firstOf(Q)].x, held[lastOf(Q)].x)

(* The last candidate, 1.0 s, was accepted after the nine shorter ones     *)
(* were rejected.                                                          *)
C19_Witness ==
    /\ pc = "solved"
    /\ \E a \in call : \E c \in clearance :
          /\ c.needsHold
          /\ c.holdDuration = holdCandidate(10)
          /\ acceptedCandidates(a) = {10}

(* C20: when neither the tap nor any candidate of the sweep reaches the    *)
(* required height the solver returns needsHold = true, holdDuration = 0   *)
(* and the bounds min and max of obstacleX + obstacleWidth - 150 and       *)
(* obstacleX - 50.                                                         *)
C20_Fallback ==
    \A a \in call : \A c \in clearance :
        (/\ peakOf(simulateJump(0, a.jumpForce, a.gravity, a.speed, 0)) > requiredYOf(a)
         /\ acceptedCandidates(a) = {})
        => /\ c.needsHold
           /\ c.holdDuration = 0
           /\ boundsFrom(c, a, 50 * XUnit, 150 * XUnit)

(* The fallback for a block the jump cannot reach at any hold of the sweep, *)
(* narrower than the span of the default offsets.                          *)
C20_Witness ==
    /\ pc = "solved"
    /\ \E a \in call : \E c \in clearance :
          /\ acceptedCandidates(a) = {}
          /\ c.needsHold /\ c.holdDuration = 0
          /\ a.obstacleWidth = 40 * XUnit
          /\ c.earliestJumpX = a.obstacleX + a.obstacleWidth - 150 * XUnit
          /\ c.latestJumpX = a.obstacleX - 50 * XUnit

(* The obstacle and the window of the latest iteration of the gravity      *)
(* generator, and the natural window the solver returned for it            *)
latestObstacle == obstacles[Len(obstacles)]
latestWindow == jumpWindows[Len(jumpWindows)]
latestSolved ==
    mode = "gravity" /\ Len(obstacles) >= 1 /\ latestObstacle.type # "gap"

C22_Spacing ==
    mode = "gravity" =>
        \A i \in 1..(Len(obstacles) - 1) :
            LET between == obstacles[i + 1].x - (obstacles[i].x + obstacles[i].width)
                least == Max(400 - 15 * difficulty, 180) * XUnit
            IN  /\ obstacles[i].x < obstacles[i + 1].x
                /\ least <= between
                /\ between < least + 150 * XUnit

(* A course of two obstacles further apart than the least spacing has     *)
(* returned.                                                               *)
C22_Witness ==
    /\ mode = "gravity" /\ pc = "returned" /\ Len(obstacles) = 2
    /\ obstacles[2].x - (obstacles[1].x + obstacles[1].width) > minSpacing(difficulty) * XUnit

(* C23: the gravity generator returns, after the first iteration that      *)
(* leaves the cursor at or beyond length - 400: an iteration runs only     *)
(* while the cursor is below it and moves the cursor forward; the lists    *)
(* grow by appending and their earlier entries stay as they are.           *)
C23_GravityTerminates ==
    /\ <>(pc = "returned")
    /\ [](pc = "returned" => x >= (length - 400) * XUnit)
    /\ [][pc = "loop" =>
            /\ (x >= (length - 400) * XUnit) <=> (pc' = "returned")
            /\ pc' = "loop" =>
                  /\ x' > x
                  /\ Len(obstacles') > Len(obstacles)
                  /\ Len(jumpWindows') > Len(jumpWindows)
            /\ \A i \in Obstacles : obstacles'[i] = obstacles[i]
            /\ \A i \in Windows : jumpWindows'[i] = jumpWindows[i]]_vars

(* The generator has returned after two iterations or more, the last of    *)
(* them begun below the end-zone boundary.                                 *)
C23_Witness ==
    /\ mode = "gravity" /\ pc = "returned" /\ obstacleCount >= 2
    /\ latestObstacle.x < (length - 400) * XUnit
    /\ x >= (length - 400) * XUnit

(* C24: with the level-1 parameters every obstacle's middle is within 200  *)
(* of the centre of its window, whatever the draws and the type.           *)
C24_WindowNearObstacle ==
    (mode = "gravity" /\ difficulty = 1) =>
        \A i \in Windows :
            LET obsMiddle2 == 2 * obstacles[i].x + obstacles[i].width
                windowMiddle2 == jumpWindows[i].startX + jumpWindows[i].endX
            IN  /\ obsMiddle2 - windowMiddle2 <= 2 * 200 * XUnit
                /\ windowMiddle2 - obsMiddle2 <= 2 * 200 * XUnit

(* Level 1 has returned with a gap, a spike and a hold block, each more    *)
(* than 100 ahead of the centre of its window.                             *)
C24_Witness ==
    /\ mode = "gravity" /\ difficulty = 1 /\ length = levelLength(1) /\ pc = "returned"
    /\ \A t \in {"gap", "spike", "block"} : \E i \in Obstacles : obstacles[i].type = t
    /\ \A i \in Windows :
          2 * obstacles[i].x + obstacles[i].width
             - (jumpWindows[i].startX + jumpWindows[i].endX) > 2 * 100 * XUnit

(* The categories an iteration can emit in the present state, over the     *)
(* draws of Math.random() in hundredths                                    *)
emittable ==
    {chooseObstacle(difficulty,
                    isHoldJumpOf(difficulty, hasHadHeldJump, obstacleCount, rand),
                    rand, 0).type : rand \in 0..(RandUnit - 1)}

(* C27 as claimed: at every tier there are draws for which an iteration    *)
(* emits a spike, draws for a block and draws for a gap.  Stated of the    *)
(* iterations where no hold is forced.                                     *)
C27_AllCategories ==
    (/\ mode = "gravity" /\ pc = "loop" /\ gravityLoopGuard(x, length)
     /\ ~forceHeldForLevel1(difficulty, hasHadHeldJump, obstacleCount))
        => emittable = {"spike", "block", "gap"}

(* C28 as claimed: every hold window of the gravity generator carries a    *)
(* hold duration > 0 ms.                                                   *)
C28_HoldPositive ==
    mode = "gravity" =>
        \A i \in Windows :
            jumpWindows[i].type = "hold" =>
                \E ms \in jumpWindows[i].holdDuration : ms > 0

(* Where the tap jump started at jx comes down *)
landingX(jx) ==
    LET trajectory == simulateJump(jx, jumpForce, gravity, speed, 0)
    IN  trajectory[Len(trajectory)].x

(* C29 as claimed: for consecutive obstacles i and i+1 of a gravity course *)
(* there is a jump start in window i whose tap arc has landed at or before *)
(* the end of window i+1.  The jump from the start of window i lands       *)
(* first, so it decides.                                                   *)
C29_JointlyPlayable ==
    mode = "gravity" =>
        \A i \in 1..(Len(jumpWindows) - 1) :
            \E jx \in {jumpWindows[i].startX, jumpWindows[i].endX} :
                landingX(jx) <= jumpWindows[i + 1].endX

(* C30: the shrink never inverts a window: at the validity check           *)
(* windowEnd >= windowStart, the shrunk width being the target (>= 60),    *)
(* and the window is emitted as shrunk, not reset to 30.                   *)
C30_NeverInverted ==
    latestSolved =>
        \A c \in clearance :
            \A w \in {shrinkWindow(c.earliestJumpX, c.latestJumpX,
                                   baseWindowWidth(difficulty) * XUnit)} :
                /\ w.windowEnd >= w.windowStart
                /\ c.latestJumpX - c.earliestJumpX > baseWindowWidth(difficulty) * XUnit =>
                      /\ w.windowEnd - w.windowStart = baseWindowWidth(difficulty) * XUnit
                      /\ w.windowEnd - w.windowStart >= 60 * XUnit
                /\ latestWindow.startX = w.windowStart
                /\ latestWindow.endX = w.windowEnd

(* A window was shrunk to the floor of 60, from a natural window more than *)
(* 100 wide.                                                               *)
C30_Witness ==
    /\ latestSolved
    /\ baseWindowWidth(difficulty) = 60
    /\ latestWindow.endX - latestWindow.startX = 60 * XUnit
    /\ \E c \in clearance : c.latestJumpX - c.earliestJumpX > 100 * XUnit


(* The generator runs that filled the levels table *)
tableRuns == {levels[i].run : i \in DOMAIN levels}

C26_FallbackPlays ==
    (scene = "GameScene" /\ awaiting = {} /\ ~midiInitResult(midiAccess)) =>
        \E i \in DOMAIN synths : synths[i].initialised /\ synths[i].isPlaying

====
